---- MODULE Spec2Model ----
(***************************************************************************)
(* autotrader-svc: the /search handler and the scrape engine of            *)
(* src/server.js.  The file holds three versions of the server:            *)
(*   "A"  lines   1-186  card locator, consent handling, fallback poll     *)
(*   "B"  lines 188-394  link locator, consent handling, fallback poll     *)
(*   "C"  lines 396-507  card locator, no consent handling, no fallback    *)
(* One version is deployed at a time (variable version).  Every await of   *)
(* an invocation is a point where another request may run, so each         *)
(* awaited browser operation (or loop iteration) is one action.            *)
(***************************************************************************)
EXTENDS Integers, Sequences, FiniteSets, TLC

\* ---------------------------------------------------------------- bounds
NumReqs == 2      \* /search requests that may be in flight together
MaxCap == 2       \* largest cap handed to scrape(url, cap)
MaxItems == 3     \* most item roots (or item links) the target page holds
MaxRawLen == 3    \* longest raw price or mileage text taken from every text
MaxTokens == 5    \* most whitespace-separated tokens of a title

\* ------------------------------------------------------ program constants
ENSURE_ATTEMPTS == 25      \* ensureResults(page, CARD_SEL, 25)
POLL_ATTEMPTS == 60        \* pollForLinks(page, 60)
REVEAL_ITERS_CARD == 30    \* for (let i = 0; i < 30; i++)
REVEAL_ITERS_LINK == 50    \* for (let i = 0; i < 50; i++)

Reqs == 1..NumReqs
Versions == {"A", "B", "C"}
Undef == "undefined"
\* null, told apart from every text (a sequence of one-character strings)
Null == <<"null">>
\* no item root, no record
Nothing == [none |-> TRUE]

\* no reveal iteration has run
NoAction == [ops |-> <<>>, iter |-> 0, before |-> 0, present |-> FALSE]

\* nothing done yet
NoLog == [scrapes |-> 0, launches |-> 0, gotos |-> 0, probes |-> <<>>,
          clicks |-> 0, clickFailed |-> FALSE, waited |-> "no", polled |-> FALSE]

VARIABLES
    version,    \* which server.js version is running
    pc,         \* pc[r]: where request r's handler / scrape invocation stands
    url,        \* url[r]: scrape's url parameter
    cap,        \* cap[r]: scrape's cap parameter
    browser,    \* browser[r]: the Browser handle held by r (0: none yet)
    nextId,     \* the next Browser the driver will hand out
    owner,      \* owner[b]: the invocation whose chromium.launch returned b
    closes,     \* closes[b]: how many times b.close() has run
    site,       \* site[r]: sponsored marker of every item the page can show
    challenge,  \* challenge[r]: the page is a bot-verification interstitial
    buttons,    \* buttons[r]: consent labels that have a button on the page
    dom,        \* dom[r]: items currently attached (a prefix of site[r])
    seen,       \* seen[r]: some query or wait of r observed >= 1 item
    i,          \* i[r]: loop counter of the fallback poll / the reveal loop
    clicked,    \* clicked[r]: the consent label acceptCookies clicked
    action,     \* action[r]: what the last reveal iteration did
    cards,      \* cards[r]: handles page.$$ returned for extraction
    idx,        \* idx[r]: handles of cards[r] already iterated
    out,        \* out[r]: scrape's out array
    err,        \* err[r]: the exception thrown by scrape
    resp,       \* resp[r]: payloads sent on r's response
    path,       \* path[r]: stages of the crawl reached so far
    log,        \* log[r]: what r's handler has done so far (calls made, labels
                \* probed, whether the consent click failed)
    item,       \* the item root handed to the record extractor
    rec         \* the record the extractor returned for item

vars == <<version, pc, url, cap, browser, nextId, owner, closes, site,
          challenge, buttons, dom, seen, i, clicked, action, cards, idx, out,
          err, resp, path, log, item, rec>>

\* the record extractor's own state
xvars == <<item, rec>>

\* ---------------------------------------------------------------- helpers
IsCardMode == version \in {"A", "C"}
IsLinkMode == version = "B"
HasConsent == version \in {"A", "B"}

\* const BASE
BASE == IF version = "B" THEN "https://www.autotrader.com/cars-for-sale/all-cars"
        ELSE "https://www.autotrader.com/cars-for-sale/kalispell-mt"

\* u.searchParams.set(k, v) guarded by if (v)
SetParam(k, v) == IF v = Undef THEN <<>> ELSE << <<k, v>> >>

\* the url of a request whose handler has not built one yet
NoUrl == [base |-> Undef, params |-> <<>>]

\* buildUrl({ zip, radius, priceMax, drive })
buildUrl(q) ==
    [base |-> BASE,
     params |-> SetParam("zip", q.zip) \o SetParam("searchRadius", q.radius)
                \o SetParam("priceRange",
                            IF q.priceMax = Undef THEN Undef ELSE <<"0-", q.priceMax>>)
                \o SetParam("driveGroup", q.drive)]

\* const { zip = "59901", radius = "10", priceMax, drive } = req.query
Destructure(query) ==
    [zip |-> IF query.zip = Undef THEN "59901" ELSE query.zip,
     radius |-> IF query.radius = Undef THEN "10" ELSE query.radius,
     priceMax |-> query.priceMax,
     drive |-> query.drive]

\* GET /search with no parameters, and with all four
DefaultQuery == [zip |-> Undef, radius |-> Undef, priceMax |-> Undef, drive |-> Undef]
OtherQuery == [zip |-> "10001", radius |-> "25", priceMax |-> "20000", drive |-> "AWD4WD"]

\* the labels acceptCookies probes, in order
ConsentLabels == <<"Accept All", "Accept all", "I Agree", "Got it", "Accept">>

\* the texts of the buttons a page may show
ButtonSets == { {}, {"Got it", "Accept Cookies"}, {"Accept all"} }

\* a text as :has-text compares it: its words, case folded
Fold(s) ==
    CASE s \in {"Accept All", "Accept all"} -> <<"accept", "all">>
      [] s = "I Agree" -> <<"i", "agree">>
      [] s = "Got it" -> <<"got", "it">>
      [] s = "Accept" -> <<"accept">>
      [] s = "Accept Cookies" -> <<"accept", "cookies">>

\* button:has-text("label") selects a button whose text contains the label,
\* whatever the case of either
HasText(text, label) ==
    LET t == Fold(text)
        l == Fold(label)
    IN \E k \in 0..(Len(t) - Len(l)) : SubSeq(t, k + 1, k + Len(l)) = l


RECURSIVE SeqsUpTo(_)
SeqsUpTo(n) ==
    IF n = 0 THEN { <<>> }
    ELSE LET S == SeqsUpTo(n - 1)
         IN S \cup { Append(s, b) : s \in { t \in S : Len(t) = n - 1 }, b \in BOOLEAN }

Caps == 0..MaxCap
Sites == SeqsUpTo(MaxItems)

\* what a request and the site it reaches may be: every input (faulty: the
\* browser operations of the invocation may reject)
AllInputs ==
    [queries |-> {DefaultQuery}, caps |-> Caps, sites |-> Sites,
     challenges |-> BOOLEAN, buttonSets |-> ButtonSets, lazy |-> BOOLEAN,
     seeMore |-> BOOLEAN, faulty |-> TRUE]

\* items attached when the page has loaded: all of them on a page that renders
\* eagerly, any prefix on a page that renders lazily
Loaded(s, lazy) == IF lazy THEN 0..Len(s) ELSE {Len(s)}

\* lazily rendered items may attach while the invocation scrolls or waits
Grown(r) == dom[r]..Len(site[r])

\* acceptCookies: the first label, in list order, whose button exists; 0: none
\* page.$('button:has-text("label")') finds a button among bs
Found(bs, label) == \E b \in bs : HasText(b, label)

FirstLabel(bs) ==
    IF \E k \in 1..Len(ConsentLabels) : Found(bs, ConsentLabels[k])
    THEN CHOOSE k \in 1..Len(ConsentLabels) :
            /\ Found(bs, ConsentLabels[k])
            /\ \A j \in 1..(k - 1) : ~Found(bs, ConsentLabels[j])
    ELSE 0

\* extractCard(card, sourceUrl): the record of item root k of the page
extractCard(r, k, sourceUrl) ==
    [source_url |-> sourceUrl, sponsored |-> site[r][k], root |-> k]

\* extractFromLink(page, aHandle, sourceUrl): the record of link k of the page
extractFromLink(r, k, sourceUrl) ==
    [source_url |-> sourceUrl, sponsored |-> FALSE, root |-> k]

\* the reveal loop's iteration bound
RevealIters == IF IsLinkMode THEN REVEAL_ITERS_LINK ELSE REVEAL_ITERS_CARD

\* the fallback poll's attempts
PollAttempts == IF IsLinkMode THEN POLL_ATTEMPTS ELSE ENSURE_ATTEMPTS

\* faulty variant: one module-level Browser, launched once and handed to every call
SharedBrowser == IF nextId > 1 THEN nextId - 1 ELSE nextId

\* chromium.launch(): a new Browser for every call
NewBrowser == nextId

\* faulty variant: the push without its sponsored test
PushedUnfiltered(o, row) == Append(o, row)

\* if (!row.sponsored) out.push(row)   (card mode)
\* out.push(row)                       (link mode)
Pushed(o, row) ==
    IF IsCardMode /\ row.sponsored THEN o ELSE Append(o, row)

\* res.json({ ok: true, rows })
SuccessPayload(rows) == [ok |-> TRUE, rows |-> rows]

\* faulty variant: the failure payload also carries the rows gathered so far
FailurePayloadWithRows(r, e) == [ok |-> FALSE, error |-> e, rows |-> out[r]]

\* res.status(500).json({ ok: false, error: String(e) })
FailurePayload(r, e) == [ok |-> FALSE, error |-> e]

\* scrape's frame is gone once it has returned or thrown: its loop counter
\* and its handle array are unreachable
Unwind(r) ==
    /\ i' = [i EXCEPT ![r] = 0]
    /\ cards' = [cards EXCEPT ![r] = 0]
    /\ idx' = [idx EXCEPT ![r] = 0]
    /\ action' = [action EXCEPT ![r] = NoAction]

\* throw: control leaves scrape for the handler's catch; entered are the
\* stages reached by the throwing step before it threw
Throw(r, e, entered) ==
    /\ pc' = [pc EXCEPT ![r] = "catch"]
    /\ err' = [err EXCEPT ![r] = e]
    /\ path' = [path EXCEPT ![r] = (@ \o entered) \o <<"Failed">>]
    /\ out' = [out EXCEPT ![r] = <<>>]
    /\ Unwind(r)

\* ------------------------------------------------------------------- Init
InitRun ==
    /\ version \in Versions
    /\ pc = [r \in Reqs |-> "idle"]
    /\ url = [r \in Reqs |-> NoUrl]
    /\ cap = [r \in Reqs |-> 0]
    /\ browser = [r \in Reqs |-> 0]
    /\ nextId = 1
    /\ owner = [b \in Reqs |-> 0]
    /\ closes = [b \in Reqs |-> 0]
    /\ site = [r \in Reqs |-> <<>>]
    /\ challenge = [r \in Reqs |-> FALSE]
    /\ buttons = [r \in Reqs |-> {}]
    /\ dom = [r \in Reqs |-> 0]
    /\ seen = [r \in Reqs |-> FALSE]
    /\ i = [r \in Reqs |-> 0]
    /\ clicked = [r \in Reqs |-> 0]
    /\ action = [r \in Reqs |-> NoAction]
    /\ cards = [r \in Reqs |-> 0]
    /\ idx = [r \in Reqs |-> 0]
    /\ out = [r \in Reqs |-> <<>>]
    /\ err = [r \in Reqs |-> "none"]
    /\ resp = [r \in Reqs |-> <<>>]
    /\ path = [r \in Reqs |-> <<>>]
    /\ log = [r \in Reqs |-> NoLog]

Init ==
    /\ InitRun
    /\ item = Nothing
    /\ rec = Nothing

\* ---------------------------------------------------------------- actions
\* app.get("/search"): destructure the query, build the url, call scrape
Search(r, In) ==
    /\ pc[r] = "idle"
    /\ \E q \in In.queries, c \in In.caps :
          /\ url' = [url EXCEPT ![r] = buildUrl(Destructure(q))]
          /\ cap' = [cap EXCEPT ![r] = c]
    /\ pc' = [pc EXCEPT ![r] = "launch"]
    /\ path' = [path EXCEPT ![r] = <<"Init">>]
    /\ log' = [log EXCEPT ![r].scrapes = @ + 1]
    /\ UNCHANGED <<xvars, version, browser, nextId, owner, closes, site, challenge,
                   buttons, dom, seen, i, clicked, action, cards, idx, out, err, resp>>

\* chromium.launch, browser.newContext, ctx.newPage
Launch(r) ==
    /\ pc[r] = "launch"
    /\ LET b == NewBrowser IN
          /\ browser' = [browser EXCEPT ![r] = b]
          /\ owner' = [owner EXCEPT ![b] = r]
    /\ nextId' = nextId + 1
    /\ pc' = [pc EXCEPT ![r] = "goto"]
    /\ log' = [log EXCEPT ![r].launches = @ + 1]
    /\ UNCHANGED <<xvars, version, url, cap, closes, site, challenge, buttons, dom, seen, i,
                   clicked, action, cards, idx, out, err, resp, path>>

\* page.goto(url) reaches domcontentloaded: the page is whatever the site serves
Goto(r, In) ==
    /\ pc[r] = "goto"
    /\ \E s \in In.sites, ch \in In.challenges, bs \in In.buttonSets, lazy \in In.lazy :
          /\ HasConsent \/ bs = {}
          /\ site' = [site EXCEPT ![r] = s]
          /\ challenge' = [challenge EXCEPT ![r] = ch]
          /\ buttons' = [buttons EXCEPT ![r] = bs]
          /\ \E d \in Loaded(s, lazy) : dom' = [dom EXCEPT ![r] = d]
    /\ pc' = [pc EXCEPT ![r] = IF HasConsent THEN "consent" ELSE "wait"]
    /\ path' = [path EXCEPT ![r] = Append(@, "Navigated")]
    /\ log' = [log EXCEPT ![r].gotos = @ + 1]
    /\ UNCHANGED <<xvars, version, url, cap, browser, nextId, owner, closes, seen, i, clicked,
                   action, cards, idx, out, err, resp>>

\* page.goto(url) rejects (navigation error, or its timeout elapses)
GotoFail(r) ==
    /\ pc[r] = "goto"
    /\ Throw(r, "page.goto: Timeout exceeded", <<>>)
    /\ log' = [log EXCEPT ![r].gotos = @ + 1]
    /\ UNCHANGED <<xvars, version, url, cap, browser, nextId, owner, closes, site, challenge,
                   buttons, dom, seen, clicked, resp>>

\* faulty variant: the loop goes on to the next label after a click
NeverBreak(found) == FALSE

\* if (await clickIfExists(page, t)) break
BreakOn(found) == found

\* acceptCookies: one iteration of the loop over the labels, with its call of
\* clickIfExists: the label is probed; a button found is clicked, a rejected
\* click being swallowed by .catch, and clickIfExists returns true
AcceptCookies(r) ==
    /\ pc[r] = "consent"
    /\ i[r] < Len(ConsentLabels)
    /\ LET t == i[r] + 1
           found == Found(buttons[r], ConsentLabels[t])
       IN /\ \E ok \in BOOLEAN :
                /\ ~found => ok
                /\ log' = [log EXCEPT ![r].probes = Append(@, t),
                                      ![r].clicks = IF found THEN @ + 1 ELSE @,
                                      ![r].clickFailed = @ \/ ~ok]
          /\ clicked' = [clicked EXCEPT ![r] = IF found THEN t ELSE @]
          /\ IF BreakOn(found)
             THEN /\ pc' = [pc EXCEPT ![r] = "settle"]
                  /\ i' = [i EXCEPT ![r] = 0]
             ELSE /\ pc' = pc
                  /\ i' = [i EXCEPT ![r] = t]
    /\ UNCHANGED <<xvars, version, url, cap, browser, nextId, owner, closes, site, challenge,
                   buttons, dom, seen, action, cards, idx, out, err, resp, path>>

\* acceptCookies: no label found a button
AcceptCookiesDone(r) ==
    /\ pc[r] = "consent"
    /\ i[r] = Len(ConsentLabels)
    /\ pc' = [pc EXCEPT ![r] = "settle"]
    /\ i' = [i EXCEPT ![r] = 0]
    /\ UNCHANGED <<xvars, log, version, url, cap, browser, nextId, owner, closes, site, challenge,
                   buttons, dom, seen, clicked, action, cards, idx, out, err, resp, path>>

\* page.waitForLoadState("networkidle").catch(() => {})
WaitForLoadState(r) ==
    /\ pc[r] = "settle"
    /\ \E d \in Grown(r) : dom' = [dom EXCEPT ![r] = d]
    /\ pc' = [pc EXCEPT ![r] = "wait"]
    /\ path' = [path EXCEPT ![r] = Append(@, "ConsentHandled")]
    /\ UNCHANGED <<xvars, log, version, url, cap, browser, nextId, owner, closes, site, challenge,
                   buttons, seen, i, clicked, action, cards, idx, out, err, resp>>

\* page.waitForSelector(SEL) resolves: an item is attached before the timeout
WaitForSelector(r) ==
    /\ pc[r] = "wait"
    /\ \E d \in Grown(r) :
          /\ d > 0
          /\ dom' = [dom EXCEPT ![r] = d]
    /\ seen' = [seen EXCEPT ![r] = TRUE]
    /\ pc' = [pc EXCEPT ![r] = "reveal"]
    /\ path' = [path EXCEPT ![r] = Append(@, "Revealing")]
    /\ log' = [log EXCEPT ![r].waited = "attached"]
    /\ UNCHANGED <<xvars, version, url, cap, browser, nextId, owner, closes, site, challenge,
                   buttons, i, clicked, action, cards, idx, out, err, resp>>

\* faulty variant: the timed-out wait is taken for an attached item: no fallback, no throw
WaitTimeoutIgnored(r) ==
    /\ pc[r] = "wait"
    /\ dom[r] = 0
    /\ pc' = [pc EXCEPT ![r] = "reveal"]
    /\ path' = [path EXCEPT ![r] = Append(@, "Revealing")]
    /\ log' = [log EXCEPT ![r].waited = "timeout"]
    /\ UNCHANGED <<xvars, version, url, cap, browser, nextId, owner, closes, site, challenge,
                   buttons, dom, seen, i, clicked, action, cards, idx, out, err, resp>>

\* page.waitForSelector(SEL) times out with nothing attached: versions A and B
\* catch it (attached = null) and fall back to the poll, version C throws
WaitTimeout(r) ==
    /\ pc[r] = "wait"
    /\ dom[r] = 0
    /\ IF HasConsent
       THEN /\ pc' = [pc EXCEPT ![r] = "poll"]
            /\ path' = [path EXCEPT ![r] = Append(@, "Revealing")]
            /\ UNCHANGED <<i, cards, idx, out, err, action>>
       ELSE Throw(r, "page.waitForSelector: Timeout exceeded", <<"Revealing">>)
    /\ log' = [log EXCEPT ![r].waited = "timeout", ![r].polled = HasConsent]
    /\ UNCHANGED <<xvars, version, url, cap, browser, nextId, owner, closes, site, challenge,
                   buttons, dom, seen, clicked, resp>>

\* ensureResults / pollForLinks: one iteration of the fallback poll
PollStep(r) ==
    /\ pc[r] = "poll"
    /\ i[r] < PollAttempts
    /\ IF dom[r] > 0
       THEN /\ seen' = [seen EXCEPT ![r] = TRUE]
            /\ pc' = [pc EXCEPT ![r] = "reveal"]
            /\ i' = [i EXCEPT ![r] = 0]
            /\ dom' = dom
       ELSE /\ \E d \in Grown(r) : dom' = [dom EXCEPT ![r] = d]
            /\ i' = [i EXCEPT ![r] = @ + 1]
            /\ UNCHANGED <<seen, pc>>
    /\ UNCHANGED <<xvars, log, version, url, cap, browser, nextId, owner, closes, site, challenge,
                   buttons, clicked, action, cards, idx, out, err, resp, path>>

\* the fallback poll returned false: if (!ok) throw new Error("No ... attached")
PollFail(r) ==
    /\ pc[r] = "poll"
    /\ i[r] = PollAttempts
    /\ Throw(r, IF IsLinkMode THEN "No vehicle links attached after scrolling."
                ELSE "No inventory cards attached after scrolling.", <<>>)
    /\ UNCHANGED <<xvars, log, version, url, cap, browser, nextId, owner, closes, site,
                   challenge, buttons, dom, seen, clicked, resp>>

\* faulty variant: the iteration scrolls whatever page.$ found
RevealOpsScrollOnly(btn, ok) == <<"scroll", "pause", "count">>

\* the operations of one reveal iteration: the button is clicked when
\* page.$ found it (a rejected click is swallowed by .catch), the page is
\* scrolled otherwise; then the pause, then the re-count
RevealOps(btn, ok) ==
    IF btn THEN <<IF ok THEN "click" ELSE "clickRejected", "pause", "count">>
    ELSE <<"scroll", "pause", "count">>
\* faulty variant: the loop never breaks on the cap
CapNeverReached(count, c) == FALSE

\* if (count >= cap) break
CapReached(count, c) == count >= c

\* one iteration of the reveal loop; btn is what page.$ found, and link mode
\* never looks for the button
RevealStep(r, In) ==
    /\ pc[r] = "reveal"
    /\ i[r] < RevealIters
    /\ \E btn \in In.seeMore, ok \in BOOLEAN :
          /\ IsLinkMode => ~btn
          /\ ~btn => ok
          /\ action' = [action EXCEPT ![r] =
                          [ops |-> RevealOps(btn, ok), iter |-> i[r],
                           before |-> dom[r], present |-> btn]]
    /\ \E count \in Grown(r) :
          /\ dom' = [dom EXCEPT ![r] = count]
          /\ IF CapReached(count, cap[r])
             THEN /\ pc' = [pc EXCEPT ![r] = "query"]
                  /\ i' = i
             ELSE /\ pc' = pc
                  /\ i' = [i EXCEPT ![r] = @ + 1]
    /\ UNCHANGED <<xvars, log, version, url, cap, browser, nextId, owner, closes, site, challenge,
                   buttons, seen, clicked, cards, idx, out, err, resp, path>>

\* the reveal loop ran out of iterations
RevealDone(r) ==
    /\ pc[r] = "reveal"
    /\ i[r] = RevealIters
    /\ pc' = [pc EXCEPT ![r] = "query"]
    /\ UNCHANGED <<xvars, log, version, url, cap, browser, nextId, owner, closes, site,
                   challenge, buttons, dom, seen, i, clicked, action, cards, idx, out,
                   err, resp, path>>

\* const cards = await page.$$(SEL); const out = []
Query(r) ==
    /\ pc[r] = "query"
    /\ cards' = [cards EXCEPT ![r] = dom[r]]
    /\ idx' = [idx EXCEPT ![r] = 0]
    /\ out' = [out EXCEPT ![r] = <<>>]
    /\ pc' = [pc EXCEPT ![r] = IF dom[r] = 0 THEN "close" ELSE "extract"]
    /\ path' = [path EXCEPT ![r] = Append(@, "Extracting")]
    /\ i' = [i EXCEPT ![r] = 0]
    /\ action' = [action EXCEPT ![r] = NoAction]
    /\ UNCHANGED <<xvars, log, version, url, cap, browser, nextId, owner, closes, site, challenge,
                   buttons, dom, seen, clicked, err, resp>>

\* the row the extraction loop builds for handle k
Row(r, k) ==
    IF IsLinkMode THEN extractFromLink(r, k, url[r]) ELSE extractCard(r, k, url[r])

\* one iteration of the extraction loop
ExtractStep(r) ==
    /\ pc[r] = "extract"
    /\ idx[r] < cards[r]
    /\ LET k == idx[r] + 1
           o == Pushed(out[r], Row(r, k))
       IN /\ out' = [out EXCEPT ![r] = o]
          /\ idx' = [idx EXCEPT ![r] = k]
          /\ pc' = [pc EXCEPT ![r] =
                       IF Len(o) >= cap[r] \/ k = cards[r] THEN "close" ELSE "extract"]
    /\ UNCHANGED <<xvars, log, version, url, cap, browser, nextId, owner, closes, site, challenge,
                   buttons, dom, seen, i, clicked, action, cards, err, resp, path>>
\* faulty variant: the browser may be closed while the extraction loop runs
CloseEarly(r) ==
    /\ pc[r] \in {"extract", "close"}
    /\ closes[browser[r]] = 0
    /\ closes' = [closes EXCEPT ![browser[r]] = @ + 1]
    /\ IF pc[r] = "close"
       THEN /\ pc' = [pc EXCEPT ![r] = "return"]
            /\ path' = [path EXCEPT ![r] = Append(@, "Done")]
            /\ Unwind(r)
       ELSE UNCHANGED <<pc, path, i, cards, idx, action>>
    /\ UNCHANGED <<xvars, log, version, url, cap, browser, nextId, owner, site, challenge, buttons,
                   dom, seen, clicked, out, err, resp>>

\* await browser.close(); return out
Close(r) ==
    /\ pc[r] = "close"
    /\ closes' = [closes EXCEPT ![browser[r]] = @ + 1]
    /\ pc' = [pc EXCEPT ![r] = "return"]
    /\ path' = [path EXCEPT ![r] = Append(@, "Done")]
    /\ Unwind(r)
    /\ UNCHANGED <<xvars, log, version, url, cap, browser, nextId, owner, site, challenge, buttons,
                   dom, seen, clicked, out, err, resp>>

\* const rows = await scrape(url, 800); res.json({ ok: true, rows })
Respond(r) ==
    /\ pc[r] = "return"
    /\ resp' = [resp EXCEPT ![r] = Append(@, SuccessPayload(out[r]))]
    /\ pc' = [pc EXCEPT ![r] = "done"]
    /\ UNCHANGED <<xvars, log, version, url, cap, browser, nextId, owner, closes, site,
                   challenge, buttons, dom, seen, i, clicked, action, cards, idx, out,
                   err, path>>
\* faulty variant: the handler invokes scrape a second time after a failure
RespondErrorRetry(r) ==
    /\ pc[r] = "catch"
    /\ log[r].scrapes < 2
    /\ pc' = [pc EXCEPT ![r] = "launch"]
    /\ log' = [log EXCEPT ![r].scrapes = @ + 1]
    /\ UNCHANGED <<xvars, version, url, cap, browser, nextId, owner, closes, site,
                   challenge, buttons, dom, seen, i, clicked, action, cards, idx, out,
                   err, path, resp>>

\* catch (e) { res.status(500).json({ ok: false, error: String(e) }) }
RespondError(r) ==
    /\ pc[r] = "catch"
    /\ resp' = [resp EXCEPT ![r] = Append(@, FailurePayload(r, err[r]))]
    /\ pc' = [pc EXCEPT ![r] = "done"]
    /\ UNCHANGED <<xvars, log, version, url, cap, browser, nextId, owner, closes, site,
                   challenge, buttons, dom, seen, i, clicked, action, cards, idx, out,
                   err, path>>

\* the awaited browser operations of scrape that no .catch guards
FaultPoints == {"launch", "consent", "poll", "reveal", "query", "extract"}

\* an unguarded browser operation rejects (page crashed, target closed)
Fault(r, In) ==
    /\ In.faulty
    /\ pc[r] \in FaultPoints
    /\ pc[r] = "consent" => i[r] < Len(ConsentLabels)
    /\ pc[r] = "poll" => i[r] < PollAttempts
    /\ pc[r] = "reveal" => i[r] < RevealIters
    /\ Throw(r, "Target page, context or browser has been closed", <<>>)
    /\ UNCHANGED <<xvars, log, version, url, cap, browser, nextId, owner, closes, site, challenge,
                   buttons, dom, seen, clicked, resp>>
\* ------------------------------------------------------- record extraction
\* Texts are sequences of one-character strings; null is Null, and the empty
\* text is <<>>. Both are falsy.
Falsy(s) == s = Null \/ s = <<>>

DigitChars == {"0", "1", "2", "3", "4", "5", "6", "7", "8", "9"}
IsDigit(c) == c \in DigitChars
\* \s
IsSpace(c) == c \in {" ", "\t"}
\* the i flag of the unit pattern
Lower(c) ==
    CASE c = "M" -> "m" [] c = "I" -> "i" [] c = "L" -> "l"
      [] c = "E" -> "e" [] c = "S" -> "s" [] OTHER -> c

\* s has the (lower-case) word w at position k, whatever its case
HasAt(s, k, w) ==
    /\ k + Len(w) - 1 <= Len(s)
    /\ \A j \in 1..Len(w) : Lower(s[k + j - 1]) = w[j]

\* the length of the match of /[$,]|mi\.?|miles?/i at position k, 0 if none:
\* the alternatives are tried in this order and the first that matches wins
UnitMatch(s, k) ==
    IF s[k] \in {"$", ","} THEN 1
    ELSE IF HasAt(s, k, <<"m", "i">>)
         THEN IF k + 2 <= Len(s) /\ s[k + 2] = "." THEN 3 ELSE 2
    ELSE IF HasAt(s, k, <<"m", "i", "l", "e">>)
         THEN IF k + 4 <= Len(s) /\ Lower(s[k + 4]) = "s" THEN 5 ELSE 4
    ELSE 0

\* s.replace(/[$,]|mi\.?|miles?/gi, ""), from position k on
RECURSIVE StripFrom(_, _)
StripFrom(s, k) ==
    IF k > Len(s) THEN <<>>
    ELSE IF UnitMatch(s, k) > 0 THEN StripFrom(s, k + UnitMatch(s, k))
    ELSE <<s[k]>> \o StripFrom(s, k + 1)

\* String.prototype.trim
RECURSIVE TrimLeft(_)
TrimLeft(s) == IF s # <<>> /\ IsSpace(Head(s)) THEN TrimLeft(Tail(s)) ELSE s
RECURSIVE TrimRight(_)
TrimRight(s) ==
    IF s # <<>> /\ IsSpace(s[Len(s)]) THEN TrimRight(SubSeq(s, 1, Len(s) - 1)) ELSE s
Trim(s) == TrimRight(TrimLeft(s))

\* the end of the run of digits that begins at position k (k - 1 if none)
RECURSIVE DigitsEnd(_, _)
DigitsEnd(s, k) ==
    IF k <= Len(s) /\ IsDigit(s[k]) THEN DigitsEnd(s, k + 1) ELSE k - 1

\* the match of /-?\d+(\.\d+)?/ that begins at position k: <<from, to>>, or
\* <<>> when none begins there
NumeralAt(s, k) ==
    LET d == IF s[k] = "-" THEN k + 1 ELSE k
        e == DigitsEnd(s, d)
        f == IF e + 1 <= Len(s) /\ s[e + 1] = "." THEN DigitsEnd(s, e + 2) ELSE e
    IN IF e < d THEN <<>>
       ELSE IF f >= e + 2 THEN <<k, f>> ELSE <<k, e>>

\* t.match(/-?\d+(\.\d+)?/): the leftmost match from position k on, as the
\* matched text, or Null
RECURSIVE Match(_, _)
Match(s, k) ==
    IF k > Len(s) THEN Null
    ELSE IF NumeralAt(s, k) # <<>>
         THEN SubSeq(s, NumeralAt(s, k)[1], NumeralAt(s, k)[2])
    ELSE Match(s, k + 1)
DigitVal(c) ==
    CASE c = "0" -> 0 [] c = "1" -> 1 [] c = "2" -> 2 [] c = "3" -> 3
      [] c = "4" -> 4 [] c = "5" -> 5 [] c = "6" -> 6 [] c = "7" -> 7
      [] c = "8" -> 8 [] c = "9" -> 9

\* the value of a run of digits
RECURSIVE IntVal(_)
IntVal(ds) ==
    IF ds = <<>> THEN 0 ELSE 10 * IntVal(SubSeq(ds, 1, Len(ds) - 1)) + DigitVal(ds[Len(ds)])

\* a run of fraction digits without its trailing zeros
RECURSIVE FracDigits(_)
FracDigits(ds) ==
    IF ds # <<>> /\ ds[Len(ds)] = "0" THEN FracDigits(SubSeq(ds, 1, Len(ds) - 1)) ELSE ds

\* a finite number: sign, integer part, fraction digits (-0 and 0 are equal)
Num(neg, int, frac) == <<neg /\ (int # 0 \/ frac # <<>>), int, frac>>

\* Number(m) for a text m of the form -?\d+(\.\d+)?
Number(m) ==
    LET neg == m[1] = "-"
        d == IF neg THEN 2 ELSE 1
        e == DigitsEnd(m, d)
    IN Num(neg, IntVal(SubSeq(m, d, e)), FracDigits(SubSeq(m, e + 2, Len(m))))

\* cleanNum(s)
cleanNum(s) ==
    IF Falsy(s) THEN Null
    ELSE LET m == Match(Trim(StripFrom(s, 1)), 1)
         IN IF m = Null THEN Null ELSE Number(m)
\* title.split(/\s+/) from position k on, cur being the token under way: a
\* text that begins or ends with whitespace gets an empty first or last token
RECURSIVE SplitFrom(_, _, _)
SplitFrom(s, k, cur) ==
    IF k > Len(s) THEN <<cur>>
    ELSE IF IsSpace(s[k])
         THEN IF k > 1 /\ IsSpace(s[k - 1]) THEN SplitFrom(s, k + 1, cur)
              ELSE <<cur>> \o SplitFrom(s, k + 1, <<>>)
    ELSE SplitFrom(s, k + 1, Append(cur, s[k]))
Split(s) == SplitFrom(s, 1, <<>>)

\* faulty variant: the year test without its end anchor
StartsWith4Digits(tok) ==
    Len(tok) >= 4 /\ \A k \in 1..4 : IsDigit(tok[k])

\* /^\d{4}$/.test(tok)
Is4Digits(tok) ==
    Len(tok) = 4 /\ \A k \in 1..4 : IsDigit(tok[k])

\* parts.join(" ")
RECURSIVE Join(_)
Join(parts) ==
    IF parts = <<>> THEN <<>>
    ELSE IF Len(parts) = 1 THEN parts[1]
    ELSE parts[1] \o <<" ">> \o Join(Tail(parts))

\* x || null, for x = parts[k] (undefined when parts has no such element)
OrNull(x) == IF Falsy(x) THEN Null ELSE x
Part(parts, k) == IF k <= Len(parts) THEN OrNull(parts[k]) ELSE Null

\* year, make, model and trim of a title
Decompose(title) ==
    LET none == [year |-> Null, make |-> Null, model |-> Null, trim |-> Null]
    IN IF Falsy(title) THEN none
       ELSE LET parts == Split(title)
            IN IF Is4Digits(parts[1])
               THEN [year |-> parts[1], make |-> Part(parts, 2), model |-> Part(parts, 3),
                     trim |-> OrNull(Join(SubSeq(parts, 4, Len(parts))))]
               ELSE none

\* An href is a sequence of pieces: "/" by itself, and pieces without a slash
Origin == <<"https:", "/", "/", "www.autotrader.com">>

\* if (link?.startsWith("/")) link = "https://www.autotrader.com" + link
Rewrite(link) ==
    IF link # Null /\ link # <<>> /\ link[1] = "/" THEN Origin \o link ELSE link

\* a[href*="/cars-for-sale/vehicle"] selects an anchor with this href
VehicleHref(h) ==
    LET w == <<"/", "cars-for-sale", "/", "vehicle">>
    IN \E k \in 0..(Len(h) - Len(w)) : SubSeq(h, k + 1, k + Len(w)) = w

\* getText / pickText of a lookup that found text x, or found no element
getText(x) == IF x = Null THEN Null ELSE Trim(x)

\* (await getText(a)) || (await getText(b)) || ... over the lookups of a field
RECURSIVE FirstTruthy(_)
FirstTruthy(found) ==
    IF Len(found) = 1 \/ ~Falsy(getText(found[1])) THEN getText(found[1])
    ELSE FirstTruthy(Tail(found))
\* the fields of a record that come from the title, the raw texts and the link
Fields(title, price_raw, mileage_raw, dealer, deal_badge, sponsored, link, sourceUrl) ==
    [source_url |-> sourceUrl, title |-> title,
     year |-> Decompose(title).year, make |-> Decompose(title).make,
     model |-> Decompose(title).model, trim |-> Decompose(title).trim,
     price_raw |-> price_raw, price_num |-> cleanNum(price_raw),
     mileage_raw |-> mileage_raw, mileage_num |-> cleanNum(mileage_raw),
     dealer |-> dealer, deal_badge |-> deal_badge, sponsored |-> sponsored,
     link |-> link]

\* extractCard(card, sourceUrl), field by field. An item root it holds, for
\* each field, what each of the field's lookups finds, in the order they are
\* made: a text, or Null for no element. it.price[2] is the first text with a
\* "$" anywhere in the root, which is also what the card's one combined price
\* selector finds.
cardRecord(it, sourceUrl) ==
    Fields(FirstTruthy(SubSeq(it.title, 1, 3)), getText(it.price[2]),
           FirstTruthy(it.mileage), FirstTruthy(it.dealer), getText(it.badge),
           it.sponsored,
           IF it.href # Null /\ VehicleHref(it.href) THEN Rewrite(it.href) ELSE Null,
           sourceUrl)

\* extractFromLink(page, aHandle, sourceUrl), field by field
linkRecord(it, sourceUrl) ==
    Fields(FirstTruthy(it.title), FirstTruthy(it.price), FirstTruthy(it.mileage),
           FirstTruthy(it.dealer), getText(it.badge), FALSE, Rewrite(it.href),
           sourceUrl)

\* ------------------------------------------------------------ specifications
Step(r, In) ==
    \/ Search(r, In)
    \/ Launch(r)
    \/ Goto(r, In)
    \/ GotoFail(r)
    \/ AcceptCookies(r)
    \/ AcceptCookiesDone(r)
    \/ WaitForLoadState(r)
    \/ WaitForSelector(r)
    \/ WaitTimeout(r)
    \/ PollStep(r)
    \/ PollFail(r)
    \/ RevealStep(r, In)
    \/ RevealDone(r)
    \/ Query(r)
    \/ ExtractStep(r)
    \/ Close(r)
    \/ Respond(r)
    \/ RespondError(r)
    \/ Fault(r, In)

\* one request at a time, every input
Next == Step(1, AllInputs)

Spec == Init /\ [][Next]_vars
\* inputs of the runs checked for termination: one empty and one two-item
\* page, every cap, every consent state, every point of failure
LiveInputs ==
    [queries |-> {DefaultQuery}, caps |-> Caps, sites |-> { <<>>, <<FALSE, TRUE>> },
     challenges |-> BOOLEAN, buttonSets |-> ButtonSets, lazy |-> BOOLEAN,
     seeMore |-> BOOLEAN, faulty |-> TRUE]

NextLive == Step(1, LiveInputs)

\* every awaited browser operation returns or times out, so a handler that can
\* take a step eventually takes one
SpecLive == Init /\ [][NextLive]_vars /\ WF_vars(NextLive)

\* concurrent requests, each with its own query, on pages that render eagerly:
\* request 1 has a cap of 2, meets a site that is empty or shows one organic
\* item, and its browser operations may reject; every other request has a cap
\* of 1 and meets a site that shows a sponsored and an organic item
ConcInputs(r) ==
    [queries |-> {IF r = 1 THEN DefaultQuery ELSE OtherQuery},
     caps |-> {IF r = 1 THEN 2 ELSE 1},
     sites |-> IF r = 1 THEN { <<>>, <<FALSE>> } ELSE { <<TRUE, FALSE>> },
     challenges |-> {FALSE}, buttonSets |-> { {} }, lazy |-> {FALSE},
     seeMore |-> {FALSE}, faulty |-> (r = 1)]

NextConc == \E r \in Reqs : Step(r, ConcInputs(r))

SpecConc == Init /\ [][NextConc]_vars
\* ------------------------------------------------- the extractor's inputs
\* all texts over alphabet A of length at most n
RECURSIVE TextsUpTo(_, _)
TextsUpTo(A, n) ==
    IF n = 0 THEN { <<>> }
    ELSE TextsUpTo(A, n - 1)
         \cup { Append(t, c) : t \in TextsUpTo(A, n - 1), c \in A }

\* raw price and mileage texts: every text over these characters, and the
\* texts a listing shows
RawChars == {"1", "5", "$", ",", ".", "-", " ", "m", "i", "l", "e", "s"}
RawSamples ==
    { <<"$", "2", "3", ",", "5", "0", "0">>,
      <<"4", "5", ",", "2", "1", "0", " ", "m", "i", ".">>,
      <<"4", "5", ",", "2", "1", "0", " ", "M", "I", "L", "E", "S">>,
      <<"$", "1", "9", ".", "5", "0">>,
      <<" ", "$", "7", " ">> }
RawTexts(n) == TextsUpTo(RawChars, n) \cup RawSamples

\* titles: tokens separated by one kind of whitespace run, the whole padded
\* with whitespace or not
TitleTokens ==
    { <<"2", "0", "2", "1">>, <<"2", "0", "2", "1", "1">>, <<"2", "0", "2">>,
      <<"X", "L">> }
Gaps == { <<" ">>, <<" ", " ">>, <<"\t">> }
Pads == { <<>>, <<" ">> }
RECURSIVE JoinWith(_, _)
JoinWith(toks, gap) ==
    IF Len(toks) = 1 THEN toks[1] ELSE toks[1] \o gap \o JoinWith(Tail(toks), gap)
Titles(n) ==
    { pad \o JoinWith(toks, gap) \o pad :
        toks \in TextsUpTo(TitleTokens, n) \ { <<>> }, gap \in Gaps, pad \in Pads }

\* hrefs: path-relative, root-relative, protocol-relative, dot-relative and
\* absolute
HrefPrefixes ==
    { <<>>, <<"/">>, <<"/", "/", "www.autotrader.com", "/">>, <<"..", "/">>,
      <<"https:", "/", "/", "www.autotrader.com", "/">> }
Hrefs == { p \o <<"cars-for-sale", "/", "vehicle", "/", "123">> : p \in HrefPrefixes }

\* an item root with every field found by the field's first lookup
BaseItem ==
    [sponsored |-> FALSE,
     title |-> << <<"2", "0", "2", "1", " ", "X", "L">>, Null, Null, Null >>,
     price |-> << <<"$", "7">>, <<"$", "7">> >>,
     mileage |-> << <<"5", " ", "m", "i", ".">>, Null >>,
     dealer |-> << <<"A", "c", "e">>, Null, Null >>,
     badge |-> <<"G", "o", "o", "d">>,
     href |-> <<"/", "cars-for-sale", "/", "vehicle", "/", "123">>]

\* item roots whose fields are found by a later lookup, found empty, or not
\* found at all
SparseItems ==
    { [sponsored |-> sp, title |-> t, price |-> p, mileage |-> m, dealer |-> d,
       badge |-> b, href |-> h] :
        sp \in BOOLEAN,
        t \in { BaseItem.title, <<Null, Null, Null, Null>>,
                << <<>>, Null, BaseItem.title[1], Null >>,
                <<Null, Null, Null, BaseItem.title[1]>> },
        p \in { BaseItem.price, <<Null, Null>>, <<Null, BaseItem.price[2]>> },
        m \in { BaseItem.mileage, <<Null, Null>>, <<Null, BaseItem.mileage[1]>> },
        d \in { BaseItem.dealer, <<Null, Null, Null>> },
        b \in { BaseItem.badge, Null },
        h \in { BaseItem.href, Null } }

\* item roots that differ from BaseItem in the title, in the raw texts, in
\* the href
TitleItems(toks) ==
    { [BaseItem EXCEPT !.title = <<t, Null, Null, Null>>] : t \in Titles(toks) }
RawItems(len) ==
    { [BaseItem EXCEPT !.price = <<s, s>>, !.mileage = <<s, Null>>] : s \in RawTexts(len) }
HrefItems == { [BaseItem EXCEPT !.href = h] : h \in Hrefs }

\* the item roots the extraction loop hands to the extractor: in link mode an
\* item root is an anchor that LINK_SEL selected
InitExtract ==
    /\ InitRun
    /\ \/ item \in TitleItems(MaxTokens)
       \/ item \in RawItems(MaxRawLen)
       \/ item \in HrefItems
       \/ item \in SparseItems
    /\ IsLinkMode => item.href # Null /\ VehicleHref(item.href)
    /\ rec = Nothing

\* const row = await extractCard(c, url)
ExtractCard ==
    /\ IsCardMode
    /\ rec = Nothing
    /\ rec' = cardRecord(item, url[1])
    /\ UNCHANGED <<item, log, version, pc, url, cap, browser, nextId, owner, closes, site,
                   challenge, buttons, dom, seen, i, clicked, action, cards, idx, out,
                   err, resp, path>>

\* const row = await extractFromLink(page, a, url)
ExtractFromLink ==
    /\ IsLinkMode
    /\ rec = Nothing
    /\ rec' = linkRecord(item, url[1])
    /\ UNCHANGED <<item, log, version, pc, url, cap, browser, nextId, owner, closes, site,
                   challenge, buttons, dom, seen, i, clicked, action, cards, idx, out,
                   err, resp, path>>

NextExtract == ExtractCard \/ ExtractFromLink

SpecExtract == InitExtract /\ [][NextExtract]_vars

\* ------------------------------------------------------------------ claims
Min(a, b) == IF a < b THEN a ELSE b
Take(s, n) == SubSeq(s, 1, Min(n, Len(s)))
Reached(r, stage) == \E k \in 1..Len(path[r]) : path[r][k] = stage
Returned(r) == pc[r] \in {"return", "done"} /\ Reached(r, "Done")
Threw(r) == pc[r] \in {"catch", "done"} /\ Reached(r, "Failed")
HasRows(p) == "rows" \in DOMAIN p
HasError(p) == "error" \in DOMAIN p
NoItemsErrors ==
    {"No inventory cards attached after scrolling.",
     "No vehicle links attached after scrolling.",
     "page.waitForSelector: Timeout exceeded"}
FaultError == "Target page, context or browser has been closed"

\* C1: when a scrape invocation has terminated (returned or thrown), the
\* browser it launched has been closed exactly once.
C1_ClosedExactlyOnce ==
    \A r \in Reqs :
        (Returned(r) \/ Threw(r)) /\ browser[r] # 0 => closes[browser[r]] = 1

\* C2: the sequence scrape builds and returns never holds more than cap
\* records, for every cap from 0 up, in card mode and in link mode.
C2_LengthWithinCap ==
    \A r \in Reqs :
        /\ Len(out[r]) <= cap[r]
        /\ \A k \in 1..Len(resp[r]) :
              HasRows(resp[r][k]) => Len(resp[r][k].rows) <= cap[r]

\* C3: on a bot-verification / access-denied page the run never reaches the
\* reveal or the extraction stage, returns no record, and can only fail, with
\* a Blocked failure unless a browser operation itself broke first.
C3_BlockedNeverCrawls ==
    \A r \in Reqs :
        challenge[r] =>
            /\ ~Reached(r, "Revealing")
            /\ ~Reached(r, "Extracting")
            /\ ~Returned(r)
            /\ out[r] = <<>>
            /\ err[r] \in {"none", "Blocked", FaultError}

\* C4: in card mode no record of out, at any point of the extraction loop, and
\* no record of a sent response, has sponsored = true.
C4_NoSponsoredInCardMode ==
    IsCardMode =>
        \A r \in Reqs :
            /\ \A k \in 1..Len(out[r]) : ~out[r][k].sponsored
            /\ \A n \in 1..Len(resp[r]) :
                  HasRows(resp[r][n]) =>
                      \A k \in 1..Len(resp[r][n].rows) : ~resp[r][n].rows[k].sponsored

\* a card-mode extraction has iterated past a sponsored root and kept an
\* organic one
C4_Witness ==
    \E r \in Reqs :
        /\ IsCardMode
        /\ pc[r] = "close"
        /\ idx[r] >= 2
        /\ site[r][1]
        /\ Len(out[r]) >= 1

\* the rows of the non-sponsored roots among the first n located roots
RECURSIVE OrganicRows(_, _)
OrganicRows(r, n) ==
    IF n = 0 THEN <<>>
    ELSE IF site[r][n] THEN OrganicRows(r, n - 1)
         ELSE Append(OrganicRows(r, n - 1),
                     [source_url |-> url[r], sponsored |-> FALSE, root |-> n])

\* C5: in card mode sponsored roots do not count toward the cap, in the
\* reveal loop or in the extraction loop: the reveal loop stops on the cap only
\* once cap non-sponsored roots are located (or the page has no more to show),
\* and the sequence scrape returns is exactly the first
\* min(cap, number of non-sponsored located roots) non-sponsored roots, in DOM
\* order.
C5_FirstOrganicUpToCap ==
    \A r \in Reqs :
        /\ IsCardMode /\ pc[r] = "query" /\ i[r] < RevealIters =>
              \/ Len(OrganicRows(r, dom[r])) >= cap[r]
              \/ dom[r] = Len(site[r])
        /\ IsCardMode /\ pc[r] = "close" =>
              out[r] = Take(OrganicRows(r, cards[r]), cap[r])

\* C6: in link mode the sequence scrape returns holds one record for each of
\* the first min(cap, number of located links) links, in DOM order, each with
\* sponsored = false.
C6_LinkModeUnfiltered ==
    \A r \in Reqs :
        IsLinkMode /\ pc[r] = "close" =>
            /\ Len(out[r]) = Min(cap[r], cards[r])
            /\ \A k \in 1..Len(out[r]) :
                  out[r][k].root = k /\ ~out[r][k].sponsored

\* state part of C7: while no wait or poll has observed an item, the run is
\* in neither loop, has extracted nothing and has returned nothing; the poll
\* never exceeds its attempts; a no-items failure is raised only by such a run
C7_Unseen ==
    \A r \in Reqs :
        /\ ~seen[r] =>
              /\ pc[r] \notin {"reveal", "query", "extract", "close", "return"}
              /\ ~Reached(r, "Extracting")
              /\ ~Returned(r)
              /\ out[r] = <<>>
              /\ \A k \in 1..Len(resp[r]) : ~HasRows(resp[r][k])
        /\ pc[r] = "poll" => i[r] <= PollAttempts /\ ~seen[r]
        /\ err[r] \in NoItemsErrors => ~seen[r] /\ Threw(r)

\* step part of C7: the poll is left for the failure only once every attempt
\* has been made, and then with a no-items error; a first wait that times out
\* with no fallback (version C) fails the same way
C7_Exhausted ==
    \A r \in Reqs :
        /\ pc[r] = "poll" /\ i[r] = PollAttempts /\ pc'[r] # pc[r] =>
              pc'[r] = "catch" /\ err'[r] \in NoItemsErrors
        /\ pc[r] = "poll" /\ pc'[r] = "catch" /\ err'[r] # FaultError =>
              i[r] = PollAttempts /\ err'[r] \in NoItemsErrors
        /\ pc[r] = "wait" /\ pc'[r] = "catch" => err'[r] \in NoItemsErrors

\* C7: a run in which neither the first-attachment wait nor any fallback poll
\* observes an item ends in a no-items failure once the bounded attempts are
\* exhausted, never enters the reveal or the extraction loop, and returns no
\* record.
C7_NoItemsFails == []C7_Unseen /\ [][C7_Exhausted]_vars

\* a run has failed with a no-items error and answered
C7_Witness ==
    \E r \in Reqs :
        /\ pc[r] = "done"
        /\ err[r] \in NoItemsErrors
        /\ ~seen[r]
        /\ Len(resp[r]) = 1

\* C8: a request gets at most one response, and exactly one once its handler
\* has finished; the response is either {ok: true, rows} with the complete out
\* of a scrape that returned, or {ok: false, error} with the error of a scrape
\* that threw and no rows.
C8_OneCleanResponse ==
    \A r \in Reqs :
        /\ Len(resp[r]) <= 1
        /\ (pc[r] = "done") <=> (Len(resp[r]) = 1)
        /\ \A n \in 1..Len(resp[r]) :
              LET p == resp[r][n] IN
                 IF p.ok
                 THEN /\ DOMAIN p = {"ok", "rows"}
                      /\ Returned(r)
                      /\ p.rows = out[r]
                      /\ err[r] = "none"
                 ELSE /\ DOMAIN p = {"ok", "error"}
                      /\ Threw(r)
                      /\ p.error = err[r]
                      /\ err[r] # "none"

\* a run that failed after extraction had begun has answered with the error
C8_Witness ==
    \E r \in Reqs :
        /\ pc[r] = "done"
        /\ Reached(r, "Extracting")
        /\ Reached(r, "Failed")
        /\ Len(resp[r]) = 1
        /\ ~resp[r][1].ok

\* C9: under any interleaving of concurrent requests the invocations hold
\* distinct browsers, each the one its own launch returned; a browser has been
\* closed only by the invocation that launched it, on its way to returning;
\* and every record, in out and in a response, carries its own invocation's
\* target url.
C9_Isolation ==
    /\ \A r1, r2 \in Reqs :
          r1 # r2 /\ browser[r1] # 0 /\ browser[r2] # 0 => browser[r1] # browser[r2]
    /\ \A b \in DOMAIN closes :
          closes[b] > 0 =>
              /\ owner[b] # 0
              /\ browser[owner[b]] = b
              /\ Returned(owner[b])
    /\ \A r \in Reqs :
          /\ browser[r] # 0 => owner[browser[r]] = r
          /\ \A k \in 1..Len(out[r]) : out[r][k].source_url = url[r]
          /\ \A n \in 1..Len(resp[r]) :
                HasRows(resp[r][n]) =>
                    \A k \in 1..Len(resp[r][n].rows) :
                        resp[r][n].rows[k].source_url = url[r]

\* two invocations with different urls have both extracted a record, each
\* with its browser still open
C9_Witness ==
    \E r1, r2 \in Reqs :
        /\ r1 # r2
        /\ pc[r1] = "close" /\ Len(out[r1]) = 1
        /\ pc[r2] = "close" /\ Len(out[r2]) = 1
        /\ url[r1] # url[r2]

\* the stages of the crawl state machine, in order
Stages ==
    <<"Init", "WarmedUp", "Navigated", "ConsentHandled", "BlockCheck", "Revealing",
      "Extracting", "Done">>
IsPrefix(s, t) == Len(s) <= Len(t) /\ \A k \in 1..Len(s) : s[k] = t[k]

\* C10: the stages an invocation has reached are Init, WarmedUp, Navigated,
\* ConsentHandled, BlockCheck, Revealing, Extracting, Done, in this order with
\* none skipped, possibly cut short by Failed; a run that returned has reached
\* them all.
C10_StageOrder ==
    \A r \in Reqs :
        /\ \/ IsPrefix(path[r], Stages)
           \/ /\ Len(path[r]) > 0
              /\ path[r][Len(path[r])] = "Failed"
              /\ IsPrefix(SubSeq(path[r], 1, Len(path[r]) - 1), Stages)
        /\ Returned(r) => path[r] = Stages

\* C15: a /search request invokes scrape at most once, launches at most one
\* browser and navigates at most once; once an operation of the run has
\* failed nothing is re-attempted: the handler only sends the failure, and
\* the failure payload is the request's one and final response.
C15_NoRetry ==
    \A r \in Reqs :
        /\ log[r].scrapes <= 1
        /\ log[r].launches <= 1
        /\ log[r].gotos <= 1
        /\ err[r] # "none" =>
              /\ pc[r] \in {"catch", "done"}
              /\ pc[r] = "done" => resp[r] = <<FailurePayload(r, err[r])>>

\* a run failed after it had launched and navigated, and the request is over
C15_Witness ==
    \E r \in Reqs :
        /\ pc[r] = "done"
        /\ err[r] # "none"
        /\ log[r].launches = 1
        /\ log[r].gotos = 1

\* the reveal loop has run at least one iteration
Iterated(r) == action[r].ops # <<>>

C16_LoopBound ==
    \A r \in Reqs :
        /\ pc[r] = "reveal" => i[r] <= RevealIters
        /\ Iterated(r) => action[r].iter < RevealIters
        /\ pc[r] = "reveal" /\ Iterated(r) =>
              /\ dom[r] < cap[r]
              /\ i[r] = action[r].iter + 1
        /\ pc[r] = "query" =>
              \/ /\ dom[r] >= cap[r]
                 /\ Iterated(r)
                 /\ i[r] = action[r].iter
              \/ /\ dom[r] < cap[r]
                 /\ i[r] = RevealIters

C16_Terminates ==
    \A r \in Reqs : pc[r] = "launch" ~> pc[r] \in {"return", "catch"}

\* C16: the reveal loop runs at most 30 iterations in card mode and 50 in link
\* mode; it goes on only while every re-count so far was below cap and leaves
\* for the extraction right after the first iteration whose re-count reaches
\* cap, without another iteration; and when every browser operation returns or
\* times out, every scrape invocation eventually returns or throws.
C16_BoundedReveal == []C16_LoopBound /\ C16_Terminates

\* a reveal loop used up all its iterations without the count reaching cap
C16_Witness ==
    \E r \in Reqs :
        /\ pc[r] = "query"
        /\ i[r] = RevealIters
        /\ action[r].iter = RevealIters - 1
        /\ dom[r] < cap[r]

Clicks == {"click", "clickRejected"}

\* the last card-mode reveal iteration did one reveal action, then paused, then
\* re-counted; the action was a click exactly if the button was present when
\* the iteration began and a scroll otherwise; and an iteration whose click
\* was rejected left the run going
C17_OneAction(r) ==
    IsCardMode /\ Iterated(r) =>
        /\ Len(action[r].ops) = 3
        /\ action[r].ops[1] \in Clicks \cup {"scroll"}
        /\ action[r].ops[1] \in Clicks <=> action[r].present
        /\ action[r].ops[2] = "pause"
        /\ action[r].ops[3] = "count"
        /\ action[r].ops[1] = "clickRejected" =>
              /\ pc[r] \in {"reveal", "query"}
              /\ err[r] = "none"

\* C17 as stated: each card-mode reveal iteration is one action (click iff the
\* button is present, scroll otherwise, a rejected click not aborting), a
\* pause and a re-count, and a reveal action is performed only while the
\* discoverable count is below cap (stated for a positive cap).
C17_ActsOnlyBelowCap ==
    \A r \in Reqs :
        /\ C17_OneAction(r)
        /\ IsCardMode /\ Iterated(r) /\ cap[r] > 0 => action[r].before < cap[r]

\* C17 amended: each card-mode reveal iteration is one action (click iff the
\* button is present, scroll otherwise, a rejected click not aborting), a
\* pause and a re-count; the first iteration acts whatever the count is, and
\* every later iteration acts only after a re-count below cap.
C17_ActsAfterLowRecount ==
    \A r \in Reqs :
        /\ C17_OneAction(r)
        /\ IsCardMode /\ Iterated(r) /\ action[r].iter > 0 => action[r].before < cap[r]

\* a card-mode run whose first reveal iteration clicked the button with the
\* count already at cap, the click being rejected, goes on to the extraction
C17_Witness ==
    \E r \in Reqs :
        /\ IsCardMode
        /\ pc[r] = "query"
        /\ action[r].iter = 0
        /\ action[r].ops[1] = "clickRejected"
        /\ cap[r] > 0
        /\ action[r].before >= cap[r]

WaitTimeoutError == "page.waitForSelector: Timeout exceeded"

\* the wait came before the reveal loop; the fallback poll runs exactly when
\* the wait timed out; the poll index stays within its attempts; and the
\* timed-out wait is not what fails a run
C18_WaitThenFallback ==
    \A r \in Reqs :
        /\ pc[r] \in {"reveal", "query", "extract", "close", "return"} =>
              log[r].waited # "no"
        /\ log[r].polled <=> log[r].waited = "timeout"
        /\ pc[r] = "poll" => log[r].polled
        /\ pc[r] = "poll" => i[r] <= PollAttempts
        /\ err[r] # WaitTimeoutError

\* a poll that goes on to the next attempt observed no item and scrolled; the
\* poll that reports success observed an item and did not scroll; failure is
\* reported only when all attempts are used up
C18_PollStep ==
    \A r \in Reqs :
        pc[r] = "poll" =>
            /\ i'[r] = i[r] + 1 => dom[r] = 0
            /\ pc'[r] = "reveal" => dom[r] > 0 /\ dom'[r] = dom[r]
            /\ err'[r] \in NoItemsErrors => i[r] = PollAttempts

\* C18: the first-attachment wait precedes the reveal loop; the fallback poll
\* runs if and only if the wait ended with no item attached; the poll makes at
\* most 25 (card) or 60 (link) attempts, succeeds at the first attempt that
\* observes an item without scrolling again, and fails only after every
\* attempt observed none; a timed-out wait alone never fails the run.
C18_FallbackPoll == []C18_WaitThenFallback /\ [][C18_PollStep]_vars

\* acceptCookies has returned
ConsentOver(r) == pc[r] = "settle" \/ (HasConsent /\ Reached(r, "ConsentHandled"))

\* C19: consent handling probes the labels in their fixed order and clicks at
\* most one button per run, the button of the first label that has one; no
\* label is probed after a match; and when no label matches, or the click is
\* rejected, consent handling completes without error and the run goes on.
C19_ConsentOnce ==
    \A r \in Reqs :
        /\ Len(log[r].probes) <= Len(ConsentLabels)
        /\ \A k \in 1..Len(log[r].probes) : log[r].probes[k] = k
        /\ log[r].clicks <= 1
        /\ log[r].clicks = 1 <=> clicked[r] > 0
        /\ log[r].clickFailed => log[r].clicks = 1
        /\ clicked[r] > 0 =>
              /\ Len(log[r].probes) = clicked[r]
              /\ pc[r] # "consent"
        /\ ConsentOver(r) /\ clicked[r] = 0 => Len(log[r].probes) = Len(ConsentLabels)
        /\ pc[r] = "settle" =>
              /\ clicked[r] = FirstLabel(buttons[r])
              /\ err[r] = "none"

\* a run whose consent click, on the fourth label, was rejected has returned
C19_Witness ==
    \E r \in Reqs :
        /\ pc[r] = "return"
        /\ log[r].clickFailed
        /\ clicked[r] = 4
        /\ log[r].probes = <<1, 2, 3, 4>>

\* r's browser has been closed
Closed(r) == browser[r] # 0 /\ closes[browser[r]] > 0

\* C20: once an invocation's browser is closed the invocation performs no
\* page or element operation: it is past its last one, about to return or
\* done; the browser is closed only when the extraction loop is over, and a
\* success response is sent only after the close, with the records extracted
\* before it.
C20_NothingAfterClose ==
    \A r \in Reqs :
        /\ Closed(r) => pc[r] \in {"return", "done"} /\ err[r] = "none"
        /\ pc[r] = "close" => idx[r] = cards[r] \/ Len(out[r]) >= cap[r]
        /\ pc[r] = "return" => Closed(r)
        /\ \A n \in 1..Len(resp[r]) :
              HasRows(resp[r][n]) => Closed(r) /\ resp[r][n].rows = out[r]

\* a run that extracted a record has closed its browser and answered
C20_Witness ==
    \E r \in Reqs :
        /\ pc[r] = "done"
        /\ Closed(r)
        /\ Len(resp[r]) = 1
        /\ HasRows(resp[r][1])
        /\ Len(resp[r][1].rows) > 0

\* C11: extraction of an item root never fails the run: once the extraction
\* stage has begun, no field lookup that fails makes the invocation throw, and
\* every invocation that began extracting comes to its return.
C11_ExtractionNeverFails ==
    \A r \in Reqs :
        Reached(r, "Extracting") => err[r] = "none" /\ ~Reached(r, "Failed")

HasDigit(s) == \E k \in 1..Len(s) : IsDigit(s[k])

\* the number written at position k of t, <<>> if none is: an optional minus
\* sign, then digits with an optional fraction, or a fraction alone (".5")
DenotedAt(t, k) ==
    LET neg == t[k] = "-"
        d == IF neg THEN k + 1 ELSE k
        dot == d + 1 <= Len(t) /\ t[d] = "." /\ IsDigit(t[d + 1])
    IN IF dot THEN Num(neg, 0, FracDigits(SubSeq(t, d + 1, DigitsEnd(t, d + 1))))
       ELSE IF NumeralAt(t, k) = <<>> THEN <<>>
       ELSE Number(SubSeq(t, NumeralAt(t, k)[1], NumeralAt(t, k)[2]))

\* the number a raw text denotes once "$", ",", and the unit words are
\* removed: the first number written in what is left
Denotes(s) ==
    LET t == Trim(StripFrom(s, 1))
        at == { k \in 1..Len(t) : DenotedAt(t, k) # <<>> }
    IN DenotedAt(t, CHOOSE k \in at : \A j \in at : k <= j)

\* num is what the claim requires for the raw text raw
CleanOf(raw, num) ==
    IF Falsy(raw) \/ ~HasDigit(raw) THEN num = Null
    ELSE /\ num # Null
         /\ num[2] \in Nat
         /\ num = Denotes(raw)

\* C12: cleanNum returns null for a null or empty text and for a text without
\* a digit, and otherwise the number the text denotes once currency symbols,
\* thousands separators and unit words are removed; the result is null or a
\* finite number.
C12_CleanNumDenotes ==
    rec # Nothing =>
        /\ CleanOf(rec.price_raw, rec.price_num)
        /\ CleanOf(rec.mileage_raw, rec.mileage_num)

\* the positions at which a token (a maximal run without whitespace) begins
TokenStarts(s) ==
    { k \in 1..Len(s) : ~IsSpace(s[k]) /\ (k = 1 \/ IsSpace(s[k - 1])) }

\* the token that begins at position k
TokenAt(s, k) ==
    SubSeq(s, k, CHOOSE j \in k..Len(s) :
                    /\ \A m \in k..j : ~IsSpace(s[m])
                    /\ j = Len(s) \/ IsSpace(s[j + 1]))

\* the tokens of a text, in order
Tokens(s) ==
    [n \in 1..Cardinality(TokenStarts(s)) |->
        TokenAt(s, CHOOSE k \in TokenStarts(s) :
                      Cardinality({ j \in TokenStarts(s) : j < k }) = n - 1)]

FourDigits(tok) == Len(tok) = 4 /\ \A k \in 1..4 : tok[k] \in DigitChars

\* C13: when the first whitespace-separated token of the title is exactly four
\* digits, year is that token, make the second token and model the third
\* (null if absent), and trim the remaining tokens joined by single spaces
\* (null if none); otherwise, and for a null title, all four are null. So
\* year is null or four digits, and a null year comes with null make, model
\* and trim.
C13_TitleDecomposition ==
    rec # Nothing =>
        LET toks == IF Falsy(rec.title) THEN <<>> ELSE Tokens(rec.title)
            tok(n) == IF n <= Len(toks) THEN toks[n] ELSE Null
        IN /\ IF toks # <<>> /\ FourDigits(toks[1])
              THEN /\ rec.year = toks[1]
                   /\ rec.make = tok(2)
                   /\ rec.model = tok(3)
                   /\ rec.trim = IF Len(toks) >= 4 THEN Join(SubSeq(toks, 4, Len(toks)))
                                 ELSE Null
              ELSE /\ rec.year = Null
                   /\ rec.make = Null
                   /\ rec.model = Null
                   /\ rec.trim = Null
           /\ rec.year = Null \/ FourDigits(rec.year)
           /\ rec.year = Null => rec.make = Null /\ rec.model = Null /\ rec.trim = Null

\* a title of five tokens separated by double spaces was decomposed: the trim
\* is its last two tokens with one space between them
C13_Witness ==
    /\ rec # Nothing
    /\ rec.title = <<"2", "0", "2", "1", " ", " ", "X", "L", " ", " ", "2", "0", "2",
                     " ", " ", "2", "0", "2", "1", "1", " ", " ", "X", "L">>
    /\ rec.year = <<"2", "0", "2", "1">>
    /\ rec.trim = <<"2", "0", "2", "1", "1", " ", "X", "L">>

\* a URL with a scheme and a host
IsAbsolute(l) ==
    /\ Len(l) >= 4
    /\ l[1] \in {"https:", "http:"}
    /\ l[2] = "/" /\ l[3] = "/"
    /\ l[4] # "/"

\* an href that begins with one slash only
RootRelative(h) == h[1] = "/" /\ h[2] # "/"

\* C14: the link of a record is null or an absolute URL, whatever the shape of
\* the href it was taken from (root-relative, protocol-relative,
\* path-relative, absolute): a root-relative href is emitted as the site origin
\* followed by the href, an absolute href unchanged, and no href that is not
\* absolute is ever emitted.
C14_LinkAbsolute ==
    rec # Nothing =>
        /\ rec.link = Null \/ IsAbsolute(rec.link)
        /\ item.href # Null /\ VehicleHref(item.href) =>
              /\ RootRelative(item.href) => rec.link = Origin \o item.href
              /\ IsAbsolute(item.href) => rec.link = item.href

====
